---- MODULE Spec2Model ----
(***************************************************************************)
(* Coach AI (offline): the console conversation loop of main.py together   *)
(* with CoachEngine.reply (coach.py), SpeechToText.record_wav/transcribe   *)
(* (stt.py) and TextToSpeech.__init__/speak/_play_wav (tts.py).            *)
(*                                                                         *)
(* Strings are sequences of one-character strings, so that str.strip(),    *)
(* str.lower() and " ".join() are computed as Python computes them.        *)
(* The outside world (the typed line, the recognition backend's segments,  *)
(* the chat backend's response, the piper process, the audio players, the  *)
(* files present at start-up) is chosen nondeterministically.              *)
(***************************************************************************)
EXTENDS Naturals, Sequences, FiniteSets

\* ------------------------------------------------------------------ bounds
\* Number of prompts the conversation loop may show in one run.
MaxTurns == 2
\* Number of segments the recognition backend may yield for one recording.
MaxSegments == 2
\* Number of speak() calls made by the stand-alone caller of SpecSpeak.
MaxCalls == 2

\* ----------------------------------------------------------------- strings
\* The characters str.strip() removes (those that occur in the model).
Whitespace == {" ", "\t", "\n"}

RECURSIVE LStrip(_)
LStrip(s) ==
    IF s = <<>> THEN <<>>
    ELSE IF Head(s) \in Whitespace THEN LStrip(Tail(s)) ELSE s

RECURSIVE RStrip(_)
RStrip(s) ==
    IF s = <<>> THEN <<>>
    ELSE IF s[Len(s)] \in Whitespace THEN RStrip(SubSeq(s, 1, Len(s) - 1)) ELSE s

\* str.strip(): leading and trailing whitespace removed, the inside kept.
Strip(s) == RStrip(LStrip(s))

\* str.lower() on one character.
LowerChar(c) ==
    CASE c = "Q" -> "q"
      [] c = "U" -> "u"
      [] c = "I" -> "i"
      [] c = "T" -> "t"
      [] c = "E" -> "e"
      [] c = "X" -> "x"
      [] c = "H" -> "h"
      [] OTHER   -> c

RECURSIVE Lower(_)
Lower(s) ==
    IF s = <<>> THEN <<>> ELSE <<LowerChar(Head(s))>> \o Lower(Tail(s))

\* " ".join(parts)
RECURSIVE JoinSpace(_)
JoinSpace(parts) ==
    IF parts = <<>> THEN <<>>
    ELSE IF Len(parts) = 1 THEN parts[1]
    ELSE parts[1] \o <<" ">> \o JoinSpace(Tail(parts))

RECURSIVE StripEach(_)
StripEach(parts) ==
    IF parts = <<>> THEN <<>> ELSE <<Strip(Head(parts))>> \o StripEach(Tail(parts))

\* Python's None where a str is expected (a value distinct from every text).
None == <<"<None>">>

\* `not text`: None and the empty string are falsy, every other string is truthy.
Falsy(t) == t = None \/ t = <<>>

\* ------------------------------------------------------- the outside world
\* Lines the user may type at the prompt (input() drops the newline).
InputLines ==
    { <<>>,
      <<" ">>,
      <<"q","u","i","t">>,
      <<" ","Q","u","I","T","\t">>,
      <<"E","X","I","T">>,
      <<"h","i">>,
      <<" ","h","i"," ">>,
      <<"q","u","i","t","s">> }

\* Segment texts the recognition backend may yield.
SegmentTexts == { <<" ">>, <<" ","h","i">>, <<"q","u","i","t">> }

RECURSIVE SeqsUpTo(_, _)
SeqsUpTo(S, n) ==
    IF n = 0 THEN { <<>> }
    ELSE LET shorter == SeqsUpTo(S, n - 1)
         IN  shorter \cup { <<x>> \o t : x \in S, t \in { u \in shorter : Len(u) = n - 1 } }

SegmentLists == SeqsUpTo(SegmentTexts, MaxSegments)

\* response["message"]["content"] values the chat backend may return.
ResponseContents ==
    { <<>>,
      <<" ","\n">>,
      <<"o","k">>,
      <<"\n","o"," ","k"," ">> }

\* Captured stderr of the piper process.
StderrTexts == { "", "voice load failed" }

\* What the piper process did to the file named by -f.
WavEffects == { "written", "untouched", "removed" }

Platforms == { "Windows", "Darwin", "Linux" }

\* The ordered fallback list of _play_wav on other platforms.
Players == << "aplay", "paplay", "ffplay" >>

Absent == "<absent>"
DEFAULT_SYSTEM_PROMPT == "default life-coach prompt"

\* Contents of config/settings.yaml.
RawConfigs ==
    { [hasCoach |-> FALSE, model_name |-> Absent,     system_prompt |-> Absent],
      [hasCoach |-> TRUE,  model_name |-> Absent,     system_prompt |-> "custom prompt"],
      [hasCoach |-> TRUE,  model_name |-> "llama3.1", system_prompt |-> Absent],
      [hasCoach |-> TRUE,  model_name |-> "llama3.1", system_prompt |-> "custom prompt"] }

ExitKeywords == { <<"q","u","i","t">>, <<"e","x","i","t">> }

NoError == [type |-> "none", code |-> 0, stderr |-> ""]
NoProcess == [returncode |-> 0, stderr |-> "", ran |-> FALSE]
NoRequest == [model |-> Absent, messages |-> <<>>]
NoFile == [kind |-> "none", id |-> 0]
NoCalls == [record |-> 0, transcribe |-> 0, reply |-> 0, speak |-> 0, synth |-> 0, play |-> 0]

VARIABLES
    pc,          \* position of the program
    ret,         \* where the running speak() call returns to
    raised,      \* the exception that left the last call uncaught (NoError if none)
    assets,      \* which of piper.exe, <voice>.onnx, <voice>.onnx.json are files
    cuda,        \* whether WhisperModel(device="cuda") can be built
    platform,    \* platform.system()
    cfg,         \* the configuration mapping
    coach,       \* the CoachEngine object (model, system_prompt)
    tts,         \* whether the TextToSpeech object has been constructed
    line,        \* the line input() returned at the last prompt
    user_input,  \* main.py's user_input
    wav_path,    \* main.py's wav_path (the recording)
    reply,       \* main.py's reply
    chat,        \* the last request received by the chat backend
    response,    \* response["message"]["content"] of the last chat response
    text,        \* speak()'s argument
    txt_path,    \* speak()'s temporary text file
    out_wav,     \* speak()'s temporary output WAV (its local wav_path)
    completed,   \* speak()'s CompletedProcess
    files,       \* the transient files on disk: records [kind, id, content]
    nextId,      \* source of unique file names
    turn,        \* number of prompts shown so far
    calls,       \* calls made since the last prompt (or since the caller's call)
    played       \* the player that last played a WAV ("none", "nobody" = notice printed)

vars == << pc, ret, raised, assets, cuda, platform, cfg, coach, tts, line, user_input,
           wav_path, reply, chat, response, text, txt_path, out_wav, completed, files,
           nextId, turn, calls, played >>

mainVars == << line, user_input, wav_path, reply, chat, response, turn >>
speakVars == << text, txt_path, out_wav, completed, played >>
envVars == << assets, cuda, platform >>
startVars == << cfg, coach, tts >>

\* ----------------------------------------------------------------- helpers
\* The file a path names, and os.path.isfile(path).
FileAt(path) == { f \in files : f.kind = path.kind /\ f.id = path.id }
IsFile(path) == FileAt(path) # {}

Path(f) == [kind |-> f.kind, id |-> f.id]

\* A file with a name no earlier file had (rec_<time>_<uuid>.wav, mkstemp names).
NewFile(kind, id, content) == [kind |-> kind, id |-> id, content |-> content]

Called(what) == [calls EXCEPT ![what] = @ + 1]

\* An exception nobody catches: the traceback ends the process.  The
\* stand-alone caller of SpecSpeak observes the exception instead.
Raise(e) ==
    /\ raised' = e
    /\ pc' = IF ret = "caller" THEN "caller" ELSE "Crashed"

Error(type) == [type |-> type, code |-> 0, stderr |-> ""]

\* ------------------------------------------------------------ main.py start
\* cfg = load_config(); the coach section and its system_prompt are defaulted.
LoadConfig ==
    /\ pc = "load_config"
    /\ cfg' = [hasCoach |-> TRUE,
               model_name |-> cfg.model_name,
               system_prompt |-> IF cfg.system_prompt = Absent
                                 THEN DEFAULT_SYSTEM_PROMPT ELSE cfg.system_prompt]
    /\ pc' = "coach_init"
    /\ UNCHANGED << ret, raised, envVars, coach, tts, mainVars, speakVars,
                    files, nextId, calls >>

\* coach = CoachEngine(cfg): cfg["coach"]["model_name"] raises KeyError when absent.
CoachInit ==
    /\ pc = "coach_init"
    /\ IF cfg.model_name = Absent
       THEN /\ Raise(Error("KeyError"))
            /\ UNCHANGED coach
       ELSE /\ coach' = [model |-> cfg.model_name, system_prompt |-> cfg.system_prompt]
            /\ pc' = "stt_init"
            /\ UNCHANGED raised
    /\ UNCHANGED << ret, envVars, cfg, tts, mainVars, speakVars, files, nextId, calls >>

\* stt = SpeechToText(...): WhisperModel(device="cuda") is built once.
STTInit ==
    /\ pc = "stt_init"
    /\ IF cuda
       THEN /\ pc' = "tts_init"
            /\ UNCHANGED raised
       ELSE Raise(Error("ModelLoadError"))
    /\ UNCHANGED << ret, envVars, startVars, mainVars, speakVars, files, nextId, calls >>

\* The constructor without the check of the voice's config file.
TTSAssetsFoundNoConfig(a) == a.exe /\ a.model

\* The checks of TextToSpeech.__init__: piper.exe, then the voice and its config.
TTSAssetsFound(a) == a.exe /\ a.model /\ a.config

\* tts = TextToSpeech(...), then the banner; the loop starts at the prompt.
TTSInit ==
    /\ pc = "tts_init"
    /\ IF TTSAssetsFound(assets)
       THEN /\ tts' = TRUE
            /\ pc' = "AwaitingInput"
            /\ UNCHANGED raised
       ELSE /\ Raise(Error("FileNotFoundError"))
            /\ UNCHANGED tts
    /\ UNCHANGED << ret, envVars, cfg, coach, mainVars, speakVars, files, nextId, calls >>

\* ------------------------------------------------------- main.py: the loop
\* user_input = input("You (press ENTER to speak): ").strip()
ReadInput ==
    /\ pc = "AwaitingInput"
    /\ turn < MaxTurns
    /\ \E l \in InputLines :
          /\ line' = l
          /\ user_input' = Strip(l)
    /\ turn' = turn + 1
    /\ calls' = NoCalls
    /\ pc' = "check_exit"
    /\ UNCHANGED << ret, raised, envVars, startVars, wav_path, reply, chat, response,
                    speakVars, files, nextId >>

\* The exit test without lower(): only the lower-case keywords end the loop.
IsExitCommandCaseSensitive(s) == s \in ExitKeywords

\* user_input.lower() in ("quit", "exit")
IsExitCommand(s) == Lower(s) \in ExitKeywords

\* if user_input.lower() in ("quit", "exit"): print("Session ended."); break
CheckExit ==
    /\ pc = "check_exit"
    /\ pc' = IF IsExitCommand(user_input) THEN "Ended" ELSE "check_voice"
    /\ UNCHANGED << ret, raised, envVars, startVars, mainVars, speakVars,
                    files, nextId, calls >>

\* if user_input == "": record voice
CheckVoice ==
    /\ pc = "check_voice"
    /\ pc' = IF user_input = <<>> THEN "record" ELSE "check_empty"
    /\ UNCHANGED << ret, raised, envVars, startVars, mainVars, speakVars,
                    files, nextId, calls >>

\* wav_path = stt.record_wav(seconds=6): sd.rec/sd.wait may raise; otherwise one
\* uniquely named WAV is written into audio_dir and its path returned.
RecordWav ==
    /\ pc = "record"
    /\ calls' = Called("record")
    /\ \/ /\ files' = files \cup { NewFile("rec", nextId, <<"RIFF">>) }
          /\ wav_path' = [kind |-> "rec", id |-> nextId]
          /\ nextId' = nextId + 1
          /\ pc' = "transcribe"
          /\ UNCHANGED raised
       \/ /\ Raise(Error("PortAudioError"))
          /\ UNCHANGED << files, wav_path, nextId >>
    /\ UNCHANGED << ret, envVars, startVars, line, user_input, reply, chat, response,
                    turn, speakVars >>

\* " ".join(seg.text.strip() for seg in segments).strip()
TranscribeText(segments) == Strip(JoinSpace(StripEach(segments)))

\* user_input = stt.transcribe(wav_path, language="it"); print the transcript.
Transcribe ==
    /\ pc = "transcribe"
    /\ calls' = Called("transcribe")
    /\ \/ /\ \E segments \in SegmentLists : user_input' = TranscribeText(segments)
          /\ pc' = "check_empty"
          /\ UNCHANGED raised
       \/ /\ Raise(Error("TranscribeError"))
          /\ UNCHANGED user_input
    /\ UNCHANGED << ret, envVars, startVars, line, wav_path, reply, chat, response,
                    turn, speakVars, files, nextId >>

\* The loop without its empty-input test: every text goes on to the reply.
CheckEmptyDropped ==
    /\ pc = "check_empty"
    /\ pc' = "reply"
    /\ UNCHANGED << ret, raised, envVars, startVars, mainVars, speakVars,
                    files, nextId, calls >>

\* if not user_input: print("(Got empty input, try again)"); continue
CheckEmpty ==
    /\ pc = "check_empty"
    /\ pc' = IF Falsy(user_input) THEN "AwaitingInput" ELSE "reply"
    /\ UNCHANGED << ret, raised, envVars, startVars, mainVars, speakVars,
                    files, nextId, calls >>

\* A reply that keeps history: the previous reply is sent along as a third message.
ReplyMessagesWithHistory(system_prompt, user_text) ==
    << [role |-> "system", content |-> system_prompt],
       [role |-> "user",   content |-> user_text] >>
    \o (IF turn > 1 THEN << [role |-> "assistant", content |-> reply] >> ELSE <<>>)

\* The messages CoachEngine.reply composes for the chat API.
ReplyMessages(system_prompt, user_text) ==
    << [role |-> "system", content |-> system_prompt],
       [role |-> "user",   content |-> user_text] >>

\* ai_reply = response["message"]["content"].strip()
ReplyText(content) == Strip(content)

\* reply = coach.reply(user_input); print it.  client.chat may raise.
Reply ==
    /\ pc = "reply"
    /\ calls' = Called("reply")
    /\ chat' = [model |-> coach.model,
                messages |-> ReplyMessages(coach.system_prompt, user_input)]
    /\ \/ /\ \E content \in ResponseContents :
                /\ response' = content
                /\ reply' = ReplyText(content)
          /\ pc' = "speak_first"
          /\ UNCHANGED raised
       \/ /\ Raise(Error("ChatError"))
          /\ UNCHANGED << response, reply >>
    /\ UNCHANGED << ret, envVars, startVars, line, user_input, wav_path, turn, speakVars,
                    files, nextId >>

\* tts.speak(reply), main.py line 94
SpeakFirst ==
    /\ pc = "speak_first"
    /\ text' = reply
    /\ ret' = "speak_second"
    /\ calls' = Called("speak")
    /\ pc' = "speak_guard"
    /\ UNCHANGED << raised, envVars, startVars, mainVars, txt_path, out_wav,
                    completed, played, files, nextId >>

\* tts.speak(reply), main.py line 96; the loop then goes back to the prompt.
SpeakSecond ==
    /\ pc = "speak_second"
    /\ text' = reply
    /\ ret' = "AwaitingInput"
    /\ calls' = Called("speak")
    /\ pc' = "speak_guard"
    /\ UNCHANGED << raised, envVars, startVars, mainVars, txt_path, out_wav,
                    completed, played, files, nextId >>

\* ------------------------------------------------------ tts.py: speak(text)
\* if not text: return
SpeakGuard ==
    /\ pc = "speak_guard"
    /\ pc' = IF Falsy(text) THEN ret ELSE "speak_write"
    /\ UNCHANGED << ret, raised, envVars, startVars, mainVars, speakVars,
                    files, nextId, calls >>

\* The two NamedTemporaryFile(delete=False) blocks: the text file holds
\* text.strip(), the output WAV is created empty; both stay on disk.
SpeakWriteTemp ==
    /\ pc = "speak_write"
    /\ files' = files \cup { NewFile("txt", nextId, Strip(text)),
                             NewFile("wav", nextId + 1, <<>>) }
    /\ txt_path' = [kind |-> "txt", id |-> nextId]
    /\ out_wav' = [kind |-> "wav", id |-> nextId + 1]
    /\ nextId' = nextId + 2
    /\ pc' = "speak_synth"
    /\ UNCHANGED << ret, raised, envVars, startVars, mainVars, text, completed,
                    played, calls >>

\* What the piper process leaves at the path given with -f.
AfterPiper(fs, wav, effect) ==
    CASE effect = "written" ->
            { f \in fs : Path(f) # wav } \cup { NewFile(wav.kind, wav.id, <<"RIFF">>) }
      [] effect = "removed" -> { f \in fs : Path(f) # wav }
      [] OTHER -> fs

\* completed = subprocess.run(cmd, stdin=open(txt_path), stdout=PIPE, stderr=PIPE):
\* the process cannot be started (OSError), or it runs to its exit.
SpeakSynth ==
    /\ pc = "speak_synth"
    /\ calls' = Called("synth")
    /\ \/ /\ \E code \in {0, 1}, err \in StderrTexts, effect \in WavEffects :
                /\ completed' = [returncode |-> code, stderr |-> err, ran |-> TRUE]
                /\ files' = AfterPiper(files, out_wav, effect)
          /\ pc' = "speak_unlink"
          /\ UNCHANGED raised
       \/ /\ Raise(Error("OSError"))
          /\ UNCHANGED << completed, files >>
    /\ UNCHANGED << ret, envVars, startVars, mainVars, text, txt_path, out_wav,
                    played, nextId >>

\* speak without os.unlink(txt_path): the text file stays on disk.
SpeakUnlinkForgotten ==
    /\ pc = "speak_unlink"
    /\ pc' = "speak_check"
    /\ UNCHANGED << ret, raised, envVars, startVars, mainVars, speakVars, files,
                    nextId, calls >>

\* os.unlink(txt_path)
SpeakUnlink ==
    /\ pc = "speak_unlink"
    /\ files' = { f \in files : Path(f) # txt_path }
    /\ pc' = "speak_check"
    /\ UNCHANGED << ret, raised, envVars, startVars, mainVars, speakVars, nextId, calls >>

\* The check with `and` for `or`: a non-zero exit code alone is let through.
SynthesisFailedBoth(returncode, wavIsFile) == returncode # 0 /\ ~wavIsFile

\* completed.returncode != 0 or not os.path.isfile(wav_path)
SynthesisFailed(returncode, wavIsFile) == returncode # 0 \/ ~wavIsFile

\* raise RuntimeError(f"Piper fallito (code=...).\nSTDERR:\n{completed.stderr}")
SpeakCheck ==
    /\ pc = "speak_check"
    /\ IF SynthesisFailed(completed.returncode, IsFile(out_wav))
       THEN Raise([type |-> "RuntimeError", code |-> completed.returncode,
                   stderr |-> completed.stderr])
       ELSE /\ pc' = "speak_play"
            /\ UNCHANGED raised
    /\ UNCHANGED << ret, envVars, startVars, mainVars, speakVars, files, nextId, calls >>

\* The programs _play_wav may start on a platform.
PlayerPrograms(system) ==
    CASE system = "Windows" -> { "powershell" }
      [] system = "Darwin"  -> { "afplay" }
      [] OTHER -> { Players[i] : i \in 1..Len(Players) }

\* The for loop of _play_wav: the first player of the list that runs and exits 0.
RECURSIVE FirstWorking(_, _)
FirstWorking(list, working) ==
    IF list = <<>> THEN "nobody"
    ELSE IF Head(list) \in working THEN Head(list)
    ELSE FirstWorking(Tail(list), working)

\* self._play_wav(wav_path): on Windows and Darwin one subprocess.run without
\* check (FileNotFoundError when the program is missing); elsewhere the fallback
\* list, every exception swallowed, and a printed notice when no player worked.
SpeakPlay ==
    /\ pc = "speak_play"
    /\ calls' = Called("play")
    /\ \E working \in SUBSET PlayerPrograms(platform) :
          IF platform \in { "Windows", "Darwin" }
          THEN IF working # {}
               THEN /\ played' = CHOOSE p \in working : TRUE
                    /\ pc' = "speak_remove"
                    /\ UNCHANGED raised
               ELSE /\ Raise(Error("FileNotFoundError"))
                    /\ UNCHANGED played
          ELSE /\ played' = FirstWorking(Players, working)
               /\ pc' = "speak_remove"
               /\ UNCHANGED raised
    /\ UNCHANGED << ret, envVars, startVars, mainVars, text, txt_path, out_wav,
                    completed, files, nextId >>

\* os.remove(wav_path); speak returns.
SpeakRemove ==
    /\ pc = "speak_remove"
    /\ files' = { f \in files : Path(f) # out_wav }
    /\ pc' = ret
    /\ UNCHANGED << ret, raised, envVars, startVars, mainVars, speakVars, nextId, calls >>

\* ---------------------------------------------------------- specifications
Init ==
    /\ pc = "load_config"
    /\ ret = "none"
    /\ raised = NoError
    /\ assets \in [exe : BOOLEAN, model : BOOLEAN, config : BOOLEAN]
    /\ cuda \in BOOLEAN
    /\ platform \in Platforms
    /\ cfg \in RawConfigs
    /\ coach = [model |-> Absent, system_prompt |-> Absent]
    /\ tts = FALSE
    /\ line = <<>>
    /\ user_input = <<>>
    /\ wav_path = NoFile
    /\ reply = <<>>
    /\ chat = NoRequest
    /\ response = <<>>
    /\ text = <<>>
    /\ txt_path = NoFile
    /\ out_wav = NoFile
    /\ completed = NoProcess
    /\ files = {}
    /\ nextId = 1
    /\ turn = 0
    /\ calls = NoCalls
    /\ played = "none"

Speak ==
    \/ SpeakGuard
    \/ SpeakWriteTemp
    \/ SpeakSynth
    \/ SpeakUnlink
    \/ SpeakCheck
    \/ SpeakPlay
    \/ SpeakRemove

Next ==
    \/ LoadConfig
    \/ CoachInit
    \/ STTInit
    \/ TTSInit
    \/ ReadInput
    \/ CheckExit
    \/ CheckVoice
    \/ RecordWav
    \/ Transcribe
    \/ CheckEmpty
    \/ Reply
    \/ SpeakFirst
    \/ SpeakSecond
    \/ Speak

Spec == Init /\ [][Next]_vars

\* speak(text) on its own: a constructed TextToSpeech, a caller that passes any
\* text (None, empty, blank or not) and observes the return or the exception.
SpeakTexts ==
    { None,
      <<>>,
      <<" ">>,
      <<"\t","\n">>,
      <<"o","k">>,
      <<" ","o","k","\n">> }

InitSpeak ==
    /\ pc = "caller"
    /\ ret = "caller"
    /\ raised = NoError
    /\ assets = [exe |-> TRUE, model |-> TRUE, config |-> TRUE]
    /\ cuda \in BOOLEAN
    /\ platform \in Platforms
    /\ cfg = [hasCoach |-> TRUE, model_name |-> "llama3.1",
              system_prompt |-> DEFAULT_SYSTEM_PROMPT]
    /\ coach = [model |-> "llama3.1", system_prompt |-> DEFAULT_SYSTEM_PROMPT]
    /\ tts = TRUE
    /\ line = <<>>
    /\ user_input = <<>>
    /\ wav_path = NoFile
    /\ reply = <<>>
    /\ chat = NoRequest
    /\ response = <<>>
    /\ text = <<>>
    /\ txt_path = NoFile
    /\ out_wav = NoFile
    /\ completed = NoProcess
    /\ files = {}
    /\ nextId = 1
    /\ turn = 0
    /\ calls = NoCalls
    /\ played = "none"

\* tts.speak(t) called by the stand-alone caller.
CallSpeak ==
    /\ pc = "caller"
    /\ turn < MaxCalls
    /\ \E t \in SpeakTexts : text' = t
    /\ turn' = turn + 1
    /\ raised' = NoError
    /\ calls' = [NoCalls EXCEPT !.speak = 1]
    /\ played' = "none"
    /\ pc' = "speak_guard"
    /\ UNCHANGED << ret, envVars, startVars, line, user_input, wav_path, reply, chat,
                    response, txt_path, out_wav, completed, files, nextId >>

NextSpeak ==
    \/ CallSpeak
    \/ Speak

SpecSpeak == InitSpeak /\ [][NextSpeak]_vars

\* ------------------------------------------------------------- properties
StartStates == { "load_config", "coach_init", "stt_init", "tts_init" }
SpeakStates == { "speak_guard", "speak_write", "speak_synth", "speak_unlink",
                 "speak_check", "speak_play", "speak_remove" }
TurnStates == { "check_exit", "check_voice", "record", "transcribe", "check_empty",
                "reply", "speak_first", "speak_second" } \cup SpeakStates
Terminal == { "Ended", "Crashed" }

AllWhitespace(s) == \A i \in 1..Len(s) : s[i] \in Whitespace

\* s and k differ at most in the case of their letters.
CaseClasses == { {"q","Q"}, {"u","U"}, {"i","I"}, {"t","T"}, {"e","E"}, {"x","X"} }
SameIgnoringCase(s, k) ==
    /\ Len(s) = Len(k)
    /\ \A i \in 1..Len(s) : s[i] = k[i] \/ {s[i], k[i]} \in CaseClasses

\* The line, without the whitespace around it, is quit or exit in any case.
ExitTyped(l) ==
    \E a \in 0..Len(l), b \in 0..Len(l) :
        /\ a + b <= Len(l)
        /\ AllWhitespace(SubSeq(l, 1, a))
        /\ AllWhitespace(SubSeq(l, Len(l) - b + 1, Len(l)))
        /\ \E k \in ExitKeywords : SameIgnoringCase(SubSeq(l, a + 1, Len(l) - b), k)

\* r is c without the whitespace at its two ends.
IsTrimOf(r, c) ==
    /\ r = <<>> \/ (r[1] \notin Whitespace /\ r[Len(r)] \notin Whitespace)
    /\ \E a \in 0..Len(c) :
          /\ a + Len(r) <= Len(c)
          /\ SubSeq(c, a + 1, a + Len(r)) = r
          /\ AllWhitespace(SubSeq(c, 1, a))
          /\ AllWhitespace(SubSeq(c, a + Len(r) + 1, Len(c)))

\* C1: at the end of every turn (the loop is back at the prompt, has ended, or
\* the turn was aborted by an error) no transient file of the turn is on disk:
\* neither the recording, nor speak's text file, nor speak's output WAV.
C1_NoTransientFileAfterTurn ==
    (turn > 0 /\ pc \in { "AwaitingInput" } \cup Terminal) => files = {}

\* C2: an error raised during a turn by record_wav, transcribe, reply or speak
\* aborts only that turn: the loop goes back to AwaitingInput, and the loop ends
\* only by an exit command.
C2_ErrorAbortsOnlyTheTurn ==
    [][ /\ (turn > 0 /\ raised.type = "none" /\ raised'.type # "none")
            => pc' = "AwaitingInput"
        /\ (pc \in TurnStates /\ pc' \in Terminal)
            => (pc = "check_exit" /\ ExitTyped(line)) ]_vars

\* C3: a turn with non-empty, non-exit user text calls reply exactly once and
\* then speak exactly once, with the reply text, before the next prompt.
C3_ReplySpokenOnce ==
    (pc = "AwaitingInput" /\ turn > 0 /\ user_input # <<>>)
        => (calls.reply = 1 /\ calls.speak = 1 /\ text = reply)

\* C4: a line that, stripped, is quit or exit in any case takes the loop from
\* the prompt straight to Ended: no record, transcribe, reply or speak call is
\* made for it, and nothing happens after Ended (no further input is read).
C4_ExitCommandEndsLoop ==
    /\ [](pc = "Ended" => (ExitTyped(line) /\ calls = NoCalls /\ raised = NoError))
    /\ []((turn > 0 /\ ExitTyped(line)) => pc \in { "check_exit", "Ended" })
    /\ [][ /\ (pc = "check_exit" /\ ExitTyped(line)) => pc' = "Ended"
           /\ pc # "Ended" ]_vars

C4_Witness ==
    /\ pc = "Ended"
    /\ line = <<" ","Q","u","I","T","\t">>
    /\ turn = 2

\* C5: recording and transcription are entered only from a line with no text
\* (empty once stripped), and when the transcription is the empty string the
\* loop goes back to AwaitingInput with no reply and no speak call in the turn.
C5_EmptyTranscriptSkipsTurn ==
    /\ []((calls.record > 0 \/ calls.transcribe > 0 \/ pc \in { "record", "transcribe" })
            => AllWhitespace(line))
    /\ []((calls.transcribe = 1 /\ raised = NoError /\ user_input = <<>>)
            => (pc \in { "check_empty", "AwaitingInput" }
                /\ calls.reply = 0 /\ calls.speak = 0))
    /\ []((calls.reply > 0 \/ calls.speak > 0) => user_input # <<>>)
    /\ [][ (pc = "check_empty" /\ user_input = <<>>) => pc' = "AwaitingInput" ]_vars

C5_Witness ==
    /\ pc = "AwaitingInput"
    /\ turn = 2
    /\ line = <<>>
    /\ calls.record = 1
    /\ calls.transcribe = 1
    /\ user_input = <<>>
    /\ calls.reply = 0
    /\ calls.speak = 0

Blank(t) == t = None \/ AllWhitespace(t)

\* C6: speak with empty text, None or blank (whitespace-only) text is a no-op:
\* no temporary file is created, no synthesis process started, nothing played,
\* no error raised; the files on disk stay as they were.
C6_BlankTextIsNoOp ==
    [][ Blank(text')
          => (files' = files /\ calls'.synth = 0 /\ calls'.play = 0
              /\ raised' = NoError) ]_vars

\* C7: for non-empty text, once speak has returned normally or raised the
\* synthesis-failure error, the text file it created is gone; the file is there
\* while the synthesis process runs and is removed before the exit-code check
\* and the playback.
C7_TextFileRemoved ==
    /\ (pc = "caller" /\ turn > 0 /\ ~Falsy(text)
            /\ raised.type \in { "none", "RuntimeError" })
         => ~IsFile(txt_path)
    /\ pc \in { "speak_check", "speak_play", "speak_remove" } => ~IsFile(txt_path)
    /\ pc \in { "speak_synth", "speak_unlink" } => IsFile(txt_path)

C7_Witness ==
    /\ pc = "caller"
    /\ text = <<" ","o","k","\n">>
    /\ raised.type = "RuntimeError"
    /\ raised.stderr = "voice load failed"
    /\ calls.synth = 1
    /\ ~IsFile(txt_path)
    /\ txt_path.id = 3

\* C8: inside one speak call the order is synthesis, check, playback, delete
\* output.  Exit code 0 with the output file present: playback is triggered
\* exactly once and the output WAV is deleted only after it; otherwise speak
\* raises the synthesis error, which carries the exit code and the captured
\* stderr, and playback is never triggered.
C8_SynthesisCheckPlaybackDelete ==
    /\ calls.play <= 1 /\ calls.synth <= 1
    /\ pc = "speak_play"
         => (calls.synth = 1 /\ calls.play = 0 /\ completed.returncode = 0
             /\ IsFile(out_wav))
    /\ calls.play = 1 => (calls.synth = 1 /\ completed.returncode = 0)
    /\ pc = "speak_remove" => (calls.play = 1 /\ IsFile(out_wav))
    /\ (pc = "caller" /\ turn > 0 /\ ~Falsy(text) /\ raised = NoError)
         => (calls.play = 1 /\ ~IsFile(out_wav))
    /\ raised.type = "RuntimeError"
         => (/\ calls.play = 0
             /\ raised.stderr = completed.stderr
             /\ raised.code = completed.returncode
             /\ (completed.returncode # 0 \/ ~IsFile(out_wav)))
    /\ (pc = "caller" /\ calls.synth = 1 /\ raised.type # "OSError"
            /\ completed.returncode # 0)
         => raised.type = "RuntimeError"

C8_Witness ==
    /\ pc = "caller"
    /\ turn = 2
    /\ raised = NoError
    /\ calls.synth = 1
    /\ calls.play = 1
    /\ played = "paplay"
    /\ ~IsFile(out_wav)

\* C9: when piper.exe, the voice model or the voice config is absent, the
\* construction of TextToSpeech fails and the loop is never entered: no prompt,
\* no record, transcribe, reply or speak call.  At AwaitingInput, and anywhere
\* in the loop, all three were found.
C9_MissingAssetIsFatal ==
    /\ (tts \/ turn > 0 \/ calls # NoCalls \/ pc \in { "AwaitingInput", "Ended" } \cup TurnStates)
         => (assets.exe /\ assets.model /\ assets.config)
    /\ ~(assets.exe /\ assets.model /\ assets.config)
         => pc \in StartStates \cup { "Crashed" }

C9_Witness ==
    /\ pc = "Crashed"
    /\ raised.type = "FileNotFoundError"
    /\ assets.exe /\ assets.model /\ ~assets.config
    /\ ~tts
    /\ turn = 0

\* C10: whatever calls came before, reply(user_text) sends exactly two messages,
\* the system message with the configured prompt and then the user message with
\* user_text, addressed to the configured model; the engine's model and prompt
\* stay as constructed; the value returned is the response content without the
\* whitespace at its ends.
C10_ReplyIsStatelessTwoMessages ==
    /\ calls.reply > 0
         => (/\ calls.reply = 1
             /\ Len(chat.messages) = 2
             /\ chat.messages[1] = [role |-> "system", content |-> coach.system_prompt]
             /\ chat.messages[2] = [role |-> "user", content |-> user_input]
             /\ chat.model = coach.model)
    /\ pc \notin { "load_config", "coach_init", "Crashed" }
         => coach = [model |-> cfg.model_name, system_prompt |-> cfg.system_prompt]
    /\ (calls.reply = 1 /\ raised = NoError) => IsTrimOf(reply, response)

C10_Witness ==
    /\ turn = 2
    /\ pc = "speak_first"
    /\ calls.reply = 1
    /\ response = <<"\n","o"," ","k"," ">>
    /\ reply = <<"o"," ","k">>
    /\ user_input = <<"q","u","i","t">>
    /\ coach.system_prompt = DEFAULT_SYSTEM_PROMPT

====
